---- MODULE Spec2Model ----
(***************************************************************************)
(* respi: a crafting-recipe graph built from a csv file (Respi::init) and  *)
(* an interactive shortest-path session over it (Respi::run), started by   *)
(* main after it has read the command line.                                *)
(*                                                                         *)
(* Strings are TLA+ strings; "" is the empty csv field.  Option<String> is *)
(* a sequence: <<>> is None and <<s>> is Some(s).  A petgraph NodeIndex i  *)
(* is the position i+1 of the node in graph.nodes.  Text printed to stdout *)
(* is a sequence of the pieces the print! calls write.                     *)
(***************************************************************************)
EXTENDS Integers, Sequences, FiniteSets, TLC

VARIABLES argv,            \* std::env::args(), program name first
          csv,             \* the records of the file "items.csv" after its header
          pc,              \* position of the process
          help_printed,    \* number of print_help() calls so far
          item_csv_path,   \* main's item_csv_path
          new_items,       \* init's locals, as returned by parse_csv
          new_syntheses,
          new_morphs,
          graph,           \* init's graph / Respi.graph
          item_indices,    \* init's HashMap from item name to node index
          k,               \* records handled so far by init's three loops
          start_index,     \* run's locals
          goal_index,
          line,            \* the name get_input produced last
          result,          \* what astar returned in this query cycle
          out              \* stdout since the last prompt

vars == <<argv, csv, pc, help_printed, item_csv_path, new_items, new_syntheses,
          new_morphs, graph, item_indices, k, start_index, goal_index, line,
          result, out>>

-----------------------------------------------------------------------------
(* Bounds of the model *)

MaxRows == 3

MaxArgs == 3

-----------------------------------------------------------------------------
(* Option<String> *)

None == <<>>

Some(s) == <<s>>

\* fn empty_or_some(text: &str) -> Option<String>
empty_or_some(text) == IF text = "" THEN None ELSE Some(text)

Range(s) == {s[i] : i \in 1..Len(s)}

-----------------------------------------------------------------------------
(* The csv file.  A row keeps the fields that decide the graph: record[0], *)
(* record[5..=10], record[13..=16], record[19..=22], and its field count.  *)
(* The other fields (the four element flags, chapter, synthesis type, the  *)
(* added categories, extra quantity, effect spread) are copied into node   *)
(* payloads and never read again.                                          *)

Row(name, cats, number9, number10, ings, morphs, len) ==
    [name |-> name,
     category1 |-> cats[1], category2 |-> cats[2],
     category3 |-> cats[3], category4 |-> cats[4],
     material_number |-> number9, recipe_number |-> number10,
     ingredient1 |-> ings[1], ingredient2 |-> ings[2],
     ingredient3 |-> ings[3], ingredient4 |-> ings[4],
     from_recipe1 |-> morphs[1], from_requiring1 |-> morphs[2],
     from_recipe2 |-> morphs[3], from_requiring2 |-> morphs[4],
     len |-> len]

NoCats == <<"", "", "", "">>

\* The rows a file is made of: raw materials and recipes over the item names
\* a, b, c and the category t; z names nothing.
RowChoices ==
    { Row("a", <<"t", "", "", "">>, "1", "", NoCats, NoCats, 25),
      Row("a", <<"", "t", "", "t">>, "", "", NoCats, NoCats, 25),
      Row("a", <<"a", "", "", "">>, "", "2", <<"c", "", "", "">>, NoCats, 25),
      Row("b", NoCats, "", "1", <<"a", "", "", "">>, NoCats, 25),
      Row("b", NoCats, "", "1", <<"t", "", "a", "z">>, NoCats, 25),
      Row("b", NoCats, "", "1", <<"a", "", "", "">>, <<"b", "z", "", "">>, 25),
      Row("c", NoCats, "", "3", <<"b", "", "", "">>, NoCats, 25),
      Row("c", NoCats, "", "3", <<"b", "", "", "">>, <<"b", "a", "b", "b">>, 25),
      Row("c", <<"", "", "", "t">>, "", "3", NoCats, <<"b", "c", "a", "b">>, 25),
      Row("c", NoCats, "", "3", <<"b", "", "", "">>, <<"b", "", "z", "a">>, 25),
      Row("c", NoCats, "1", "3", <<"a", "", "", "">>, <<"b", "a", "", "">>, 25),
      Row("c", NoCats, "", "x", NoCats, NoCats, 25),
      Row("b", NoCats, "", "", NoCats, NoCats, 24) }

Datasets == UNION {[1..n -> RowChoices] : n \in 0..MaxRows}

\* str::parse::<u8>() succeeds on these texts
U8Texts == {"0", "1", "2", "3"}

\* The number fields of a row parse: record[9] if present, else record[10].
NumbersParse(row) ==
    IF row.material_number # "" THEN row.material_number \in U8Texts
    ELSE IF row.recipe_number # "" THEN row.recipe_number \in U8Texts
    ELSE TRUE

\* item_number of a row: record[9] wins over record[10].
ItemNumber(row) ==
    IF row.material_number # "" THEN "MaterialNumber"
    ELSE IF row.recipe_number # "" THEN "RecipeNumber"
    ELSE "None"

NewItem(row) ==
    [name |-> row.name,
     category1 |-> empty_or_some(row.category1),
     category2 |-> empty_or_some(row.category2),
     category3 |-> empty_or_some(row.category3),
     category4 |-> empty_or_some(row.category4),
     item_number |-> ItemNumber(row)]

NewSynthesis(row) ==
    [name |-> row.name,
     ingredient1 |-> empty_or_some(row.ingredient1),
     ingredient2 |-> empty_or_some(row.ingredient2),
     ingredient3 |-> empty_or_some(row.ingredient3),
     ingredient4 |-> empty_or_some(row.ingredient4)]

\* The morphs a recipe row declares: a pair counts when both fields are present.
RowMorphs(row) ==
    (IF row.from_recipe1 # "" /\ row.from_requiring1 # ""
       THEN <<[name |-> row.name, from_recipe |-> row.from_recipe1,
               from_requiring |-> row.from_requiring1]>>
       ELSE <<>>)
    \o
    (IF row.from_recipe2 # "" /\ row.from_requiring2 # ""
       THEN <<[name |-> row.name, from_recipe |-> row.from_recipe2,
               from_requiring |-> row.from_requiring2]>>
       ELSE <<>>)

RECURSIVE parse_records(_, _, _)
\* The loop of parse_csv over rows[i..], acc the three lists so far.
parse_records(rows, i, acc) ==
    IF i > Len(rows) THEN acc
    ELSE LET row == rows[i] IN
         IF row.len # 25 \/ ~NumbersParse(row) THEN [acc EXCEPT !.ok = FALSE]
         ELSE LET recipe == ItemNumber(row) = "RecipeNumber" IN
              parse_records(rows, i + 1,
                [ok |-> TRUE,
                 new_items |-> Append(acc.new_items, NewItem(row)),
                 new_syntheses |->
                     IF recipe THEN Append(acc.new_syntheses, NewSynthesis(row))
                     ELSE acc.new_syntheses,
                 new_morphs |->
                     IF recipe THEN acc.new_morphs \o RowMorphs(row)
                     ELSE acc.new_morphs])

\* The only file that exists
ItemsFile == "items.csv"

\* fn parse_csv(item_csv_path) -> Result<(Vec<NewItem>, Vec<NewSynthesis>, Vec<NewMorph>), _>
parse_csv(path, file) ==
    IF path # ItemsFile
    THEN [ok |-> FALSE, new_items |-> <<>>, new_syntheses |-> <<>>, new_morphs |-> <<>>]
    ELSE parse_records(file, 1,
           [ok |-> TRUE, new_items |-> <<>>, new_syntheses |-> <<>>, new_morphs |-> <<>>])

-----------------------------------------------------------------------------
(* main's argument loop *)

ArgTokens == {"respi", "-i", "--items", ItemsFile, "-x"}

ArgLists == UNION {[1..n -> ArgTokens] : n \in 0..MaxArgs}

Drop(s, n) == SubSeq(s, n + 1, Len(s))

RECURSIVE parse_args(_, _, _)
\* while let Some(arg) = args.next() { match arg.as_str() { ... } }
parse_args(args, path, helps) ==
    IF args = <<>> THEN [item_csv_path |-> path, help_printed |-> helps]
    ELSE IF args[1] = "respi" THEN parse_args(Tail(args), path, helps)
    ELSE IF args[1] \in {"-i", "--items"}
         THEN IF Len(args) >= 2
              THEN parse_args(Drop(args, 2), args[2], helps)
              ELSE parse_args(<<>>, path, helps + 1)
    ELSE parse_args(Tail(args), path, helps + 1)

-----------------------------------------------------------------------------
(* The graph *)

EmptyGraph == [nodes |-> <<>>, edges |-> <<>>]

\* RespiGraph::add_node: the new node's index is the node count after it
add_node(g, n) == [g EXCEPT !.nodes = Append(@, n)]

\* RespiGraph::add_edge(a, b, 0)
add_edge(g, a, b) ==
    [g EXCEPT !.edges = Append(@, [source |-> a, target |-> b, weight |-> 0])]

ItemNode(new_item) ==
    [kind |-> "Item", name |-> new_item.name,
     category1 |-> new_item.category1, category2 |-> new_item.category2,
     category3 |-> new_item.category3, category4 |-> new_item.category4,
     item_number |-> new_item.item_number]

SynthesisNode == [kind |-> "Synthesis"]

MorphNode == [kind |-> "Morph"]

\* HashMap::insert
map_insert(m, key, value) ==
    [n \in DOMAIN m \cup {key} |-> IF n = key THEN value ELSE m[n]]

EmptyMap == [n \in {} |-> 0]

NoIndex == 0

Reverse(s) == [j \in 1..Len(s) |-> s[Len(s) + 1 - j]]

NodeIndices(g) == [i \in 1..Len(g.nodes) |-> i]

\* NewSynthesis::ingredients: the present ones of the four, in order
ingredients(new_synthesis) ==
    LET present == SelectSeq(<<new_synthesis.ingredient1, new_synthesis.ingredient2,
                               new_synthesis.ingredient3, new_synthesis.ingredient4>>,
                             LAMBDA i : i # None)
    IN [j \in 1..Len(present) |-> present[j][1]]

\* is_ingredient with only the name and the first category compared
is_ingredient_first_category(n, ingredient) ==
    /\ n.kind = "Item"
    /\ \E c \in {Some(n.name), n.category1} : c = Some(ingredient)

\* The filter closure of init, lines 58-76: an Item one of whose five fields
\* is the ingredient
is_ingredient(n, ingredient) ==
    /\ n.kind = "Item"
    /\ \E c \in Range(<<Some(n.name), n.category1, n.category2,
                        n.category3, n.category4>>) : c = Some(ingredient)

\* init, lines 56-78: the indices of the nodes the filter keeps, in node order
ingredient_indices(g, ingredient) ==
    SelectSeq(NodeIndices(g), LAMBDA i : is_ingredient(g.nodes[i], ingredient))

\* add_produced_edge with the edge drawn from the item to the synthesis
add_produced_edge_reversed(g, synth_index, item_index) ==
    add_edge(g, item_index, synth_index)

\* init, line 53: the edge from the synthesis to the item it produces
add_produced_edge(g, synth_index, item_index) == add_edge(g, synth_index, item_index)

RECURSIVE add_ingredient_edges(_, _, _)
\* init, lines 80-82: an edge from each of the indices into the synthesis
add_ingredient_edges(g, indices, synth_index) ==
    IF indices = <<>> THEN g
    ELSE add_ingredient_edges(add_edge(g, indices[1], synth_index),
                              Tail(indices), synth_index)

RECURSIVE add_ingredients(_, _, _)
\* init, lines 55-83: the loop over the ingredients of one synthesis
add_ingredients(g, ings, synth_index) ==
    IF ings = <<>> THEN g
    ELSE add_ingredients(
           add_ingredient_edges(g, ingredient_indices(g, ings[1]), synth_index),
           Tail(ings), synth_index)

\* init, lines 43-84: the body of the loop over the syntheses
add_synthesis(g, indices, new_synthesis) ==
    LET g1 == add_node(g, SynthesisNode)
        synth_index == Len(g1.nodes)
    IN IF new_synthesis.name \in DOMAIN indices
       THEN add_ingredients(
              add_produced_edge(g1, synth_index, indices[new_synthesis.name]),
              ingredients(new_synthesis), synth_index)
       ELSE g1

\* Graph::neighbors_directed(i, Incoming): the sources of the edges into i,
\* the edge added last first
neighbors_incoming(g, i) ==
    LET into == SelectSeq(Reverse(g.edges), LAMBDA e : e.target = i)
    IN [j \in 1..Len(into) |-> into[j].source]

\* Iterator::find over a sequence of indices: the first that is in keep
find_first(indices, keep) ==
    LET found == SelectSeq(indices, LAMBDA i : i \in keep)
    IN IF found = <<>> THEN NoIndex ELSE found[1]

ItemsNamed(g, name) ==
    {i \in 1..Len(g.nodes) : g.nodes[i].kind = "Item" /\ g.nodes[i].name = name}

SynthesisNodes(g) == {i \in 1..Len(g.nodes) : g.nodes[i].kind = "Synthesis"}

\* init, lines 90-104: the first Synthesis among the predecessors of the
\* first Item named from_recipe; NoIndex where either expect panics
recipe_index_of(g, new_morph) ==
    LET item == find_first(NodeIndices(g), ItemsNamed(g, new_morph.from_recipe))
    IN IF item = NoIndex THEN NoIndex
       ELSE find_first(neighbors_incoming(g, item), SynthesisNodes(g))

\* add_morph without the edge from the required item
add_morph_without_required(g, recipe_index, required_item_index, result_index) ==
    LET g1 == add_node(g, MorphNode)
        morph_index == Len(g1.nodes)
    IN add_edge(add_edge(g1, recipe_index, morph_index), morph_index, result_index)

\* add_morph with the edge between recipe and morph drawn backwards
add_morph_recipe_backwards(g, recipe_index, required_item_index, result_index) ==
    LET g1 == add_node(g, MorphNode)
        morph_index == Len(g1.nodes)
    IN add_edge(add_edge(add_edge(g1, morph_index, recipe_index),
                         required_item_index, morph_index),
                morph_index, result_index)

\* init, lines 106-109: the Morph node and its three edges
add_morph(g, recipe_index, required_item_index, result_index) ==
    LET g1 == add_node(g, MorphNode)
        morph_index == Len(g1.nodes)
    IN add_edge(add_edge(add_edge(g1, recipe_index, morph_index),
                         required_item_index, morph_index),
                morph_index, result_index)

\* init, lines 88-104: whether the lookups of one morph all succeed
morph_resolves(g, indices, new_morph) ==
    /\ new_morph.name \in DOMAIN indices
    /\ new_morph.from_requiring \in DOMAIN indices
    /\ recipe_index_of(g, new_morph) # NoIndex

-----------------------------------------------------------------------------
(* The query: Respi::find_item, petgraph::algo::astar as Respi::run calls  *)
(* it (every edge costs 1, the estimate is 0), and the printing of a path. *)

\* Respi::find_item: the first Item node of that name
find_item(g, item_name) == find_first(NodeIndices(g), ItemsNamed(g, item_name))

\* edge_targets with every edge walked in both directions
edge_targets_undirected(g, node) ==
    LET at == SelectSeq(Reverse(g.edges), LAMBDA e : e.source = node \/ e.target = node)
    IN [j \in 1..Len(at) |-> IF at[j].source = node THEN at[j].target ELSE at[j].source]

\* Graph::edges(node): the targets of the edges out of node, the edge added
\* last first
edge_targets(g, node) ==
    LET from == SelectSeq(Reverse(g.edges), LAMBDA e : e.source = node)
    IN [j \in 1..Len(from) |-> from[j].target]

\* |_| 1, the edge cost run passes to astar
edge_cost == 1

\* |_| 0, the estimate run passes to astar
estimate_cost == 0

\* One edge of the expanded node: score its target and push it
astar_edge(st, node, next) ==
    IF next \in st.visited THEN st
    ELSE LET next_score == st.scores[node] + edge_cost IN
         IF next \in DOMAIN st.scores
         THEN IF next_score < st.scores[next]
              THEN [st EXCEPT !.scores = map_insert(@, next, next_score),
                              !.came_from = map_insert(@, next, node),
                              !.visit_next = Append(@, <<next_score + estimate_cost, next>>)]
              ELSE [st EXCEPT !.visit_next =
                                 Append(@, <<st.scores[next] + estimate_cost, next>>)]
         ELSE [st EXCEPT !.scores = map_insert(@, next, next_score),
                         !.came_from = map_insert(@, next, node),
                         !.visit_next = Append(@, <<next_score + estimate_cost, next>>)]

RECURSIVE astar_edges(_, _, _)
astar_edges(st, node, targets) ==
    IF targets = <<>> THEN st
    ELSE astar_edges(astar_edge(st, node, targets[1]), node, Tail(targets))

RECURSIVE reconstruct_path_to(_, _)
\* PathTracker::reconstruct_path_to: follow came_from back from last
reconstruct_path_to(came_from, last) ==
    IF last \in DOMAIN came_from
    THEN Append(reconstruct_path_to(came_from, came_from[last]), last)
    ELSE <<last>>

Min(S) == CHOOSE x \in S : \A y \in S : x <= y

Max(S) == CHOOSE x \in S : \A y \in S : x >= y

\* BinaryHeap::pop on MinScored entries: the position of an entry of least
\* score.  Which of several least entries the heap yields is the heap's own
\* matter; tie takes the oldest or the newest of them.
heap_pop(visit_next, tie) ==
    LET least == Min({visit_next[i][1] : i \in 1..Len(visit_next)})
        at == {i \in 1..Len(visit_next) : visit_next[i][1] = least}
    IN IF tie = "newest" THEN Max(at) ELSE Min(at)

Remove(s, i) == SubSeq(s, 1, i - 1) \o SubSeq(s, i + 1, Len(s))

RECURSIVE astar_loop(_, _, _, _)
\* while let Some(MinScored(_, node)) = visit_next.pop() { ... }; None after it
astar_loop(g, goal, st, tie) ==
    IF st.visit_next = <<>> THEN [found |-> FALSE]
    ELSE LET p == heap_pop(st.visit_next, tie)
             node == st.visit_next[p][2]
             popped == [st EXCEPT !.visit_next = Remove(@, p)]
         IN IF node = goal
            THEN [found |-> TRUE, cost |-> st.scores[node],
                  path |-> reconstruct_path_to(st.came_from, node)]
            ELSE IF node \in st.visited
            THEN astar_loop(g, goal, popped, tie)
            ELSE astar_loop(g, goal,
                   astar_edges([popped EXCEPT !.visited = @ \cup {node}],
                               node, edge_targets(g, node)),
                   tie)

\* petgraph::algo::astar(&graph, start, |finish| finish == goal, |_| 1, |_| 0)
astar(g, start, goal, tie) ==
    astar_loop(g, goal,
               [visited |-> {},
                visit_next |-> <<<<estimate_cost, start>>>>,
                scores |-> map_insert(EmptyMap, start, 0),
                came_from |-> EmptyMap],
               tie)

\* impl Display for RespiNode
Display(n) ==
    IF n.kind = "Synthesis" THEN "Synthesis"
    ELSE IF n.kind = "Morph" THEN "Morph"
    ELSE n.name

Separator == " -> "

\* after_node with the separator after every node
after_node_always(g, ni, goal) == <<Separator>>

\* run, lines 280-291: what follows a node of the path
after_node(g, ni, goal) ==
    IF g.nodes[ni].kind = "Item"
    THEN IF g.nodes[goal].kind = "Item" /\ g.nodes[ni].name # g.nodes[goal].name
         THEN <<Separator>>
         ELSE <<>>
    ELSE <<Separator>>

RECURSIVE print_path(_, _, _)
\* run, lines 278-292: for ni in path { ... }
print_path(g, path, goal) ==
    IF path = <<>> THEN <<>>
    ELSE <<Display(g.nodes[path[1]])>> \o after_node(g, path[1], goal)
         \o print_path(g, Tail(path), goal)

\* run, lines 270-294: everything one query prints
print_result(g, res, goal) ==
    <<"shortest path: ">>
    \o (IF res.found THEN print_path(g, res.path, goal) ELSE <<>>)
    \o <<"\n\n">>

\* What the user may type at a prompt: a line ending in a newline, or
\* nothing at the end of the input
InputNames == {"a", "b", "c", "z"}

StdinLines == {<<n, "\n">> : n \in InputNames} \cup {<<>>}

\* String::pop: drop the last character
pop(target) == IF target = <<>> THEN target ELSE SubSeq(target, 1, Len(target) - 1)

\* run's get_input without its printing: the line read, its last character
\* popped
get_input(typed) ==
    LET target == pop(typed) IN IF target = <<>> THEN "" ELSE target[1]

-----------------------------------------------------------------------------
Init ==
    /\ argv = <<"respi", "-i", ItemsFile>>
    /\ csv \in Datasets
    /\ pc = "main"
    /\ help_printed = 0
    /\ item_csv_path = ""
    /\ new_items = <<>>
    /\ new_syntheses = <<>>
    /\ new_morphs = <<>>
    /\ graph = EmptyGraph
    /\ item_indices = EmptyMap
    /\ k = 0
    /\ start_index = NoIndex
    /\ goal_index = NoIndex
    /\ line = ""
    /\ result = <<>>
    /\ out = <<>>

\* main, lines 406-422: skip the program name, read the arguments
MainArgs ==
    /\ pc = "main"
    /\ LET r == parse_args(Tail(argv), "", 0) IN
         /\ item_csv_path' = r.item_csv_path
         /\ help_printed' = r.help_printed
    /\ pc' = "init"
    /\ UNCHANGED <<argv, csv, new_items, new_syntheses, new_morphs, graph,
                   item_indices, k, start_index, goal_index, line, result, out>>

\* Respi::init, lines 21-24: a new graph and the parsed file, or Err to main,
\* which then returns
InitParse ==
    /\ pc = "init"
    /\ LET r == parse_csv(item_csv_path, csv) IN
         /\ new_items' = IF r.ok THEN r.new_items ELSE <<>>
         /\ new_syntheses' = IF r.ok THEN r.new_syntheses ELSE <<>>
         /\ new_morphs' = IF r.ok THEN r.new_morphs ELSE <<>>
         /\ pc' = IF r.ok THEN "build" ELSE "exit"
    /\ graph' = EmptyGraph
    /\ item_indices' = EmptyMap
    /\ k' = 0
    /\ UNCHANGED <<argv, csv, help_printed, item_csv_path, start_index,
                   goal_index, line, result, out>>

\* Respi::init, lines 26-40: one item record
InitItem ==
    /\ pc = "build"
    /\ k < Len(new_items)
    /\ LET new_item == new_items[k + 1]
           g == add_node(graph, ItemNode(new_item))
           i == Len(g.nodes)
       IN /\ graph' = g
          /\ item_indices' = map_insert(item_indices, new_item.name, i)
    /\ k' = k + 1
    /\ UNCHANGED <<argv, csv, pc, help_printed, item_csv_path, new_items,
                   new_syntheses, new_morphs, start_index, goal_index, line,
                   result, out>>

NumItems == Len(new_items)

NumSyntheses == Len(new_syntheses)

NumMorphs == Len(new_morphs)

\* Respi::init, lines 42-85: one synthesis record
InitSynthesis ==
    /\ pc = "build"
    /\ k >= NumItems
    /\ k < NumItems + NumSyntheses
    /\ graph' = add_synthesis(graph, item_indices, new_syntheses[k - NumItems + 1])
    /\ k' = k + 1
    /\ UNCHANGED <<argv, csv, pc, help_printed, item_csv_path, new_items,
                   new_syntheses, new_morphs, item_indices, start_index,
                   goal_index, line, result, out>>

\* InitMorph passing over a morph whose lookups fail
InitMorphSkipsUnresolved ==
    /\ pc = "build"
    /\ k >= NumItems + NumSyntheses
    /\ k < NumItems + NumSyntheses + NumMorphs
    /\ LET new_morph == new_morphs[k - NumItems - NumSyntheses + 1] IN
         graph' = IF morph_resolves(graph, item_indices, new_morph)
                  THEN add_morph(graph, recipe_index_of(graph, new_morph),
                                 item_indices[new_morph.from_requiring],
                                 item_indices[new_morph.name])
                  ELSE graph
    /\ k' = k + 1
    /\ UNCHANGED <<argv, csv, pc, help_printed, item_csv_path, new_items,
                   new_syntheses, new_morphs, item_indices, start_index,
                   goal_index, line, result, out>>

\* Respi::init, lines 87-110: one morph record; a failed lookup panics
InitMorph ==
    /\ pc = "build"
    /\ k >= NumItems + NumSyntheses
    /\ k < NumItems + NumSyntheses + NumMorphs
    /\ LET new_morph == new_morphs[k - NumItems - NumSyntheses + 1] IN
         IF morph_resolves(graph, item_indices, new_morph)
         THEN /\ graph' = add_morph(graph, recipe_index_of(graph, new_morph),
                                    item_indices[new_morph.from_requiring],
                                    item_indices[new_morph.name])
              /\ k' = k + 1
              /\ pc' = pc
         ELSE /\ pc' = "panic"
              /\ UNCHANGED <<graph, k>>
    /\ UNCHANGED <<argv, csv, help_printed, item_csv_path, new_items,
                   new_syntheses, new_morphs, item_indices, start_index,
                   goal_index, line, result, out>>

\* Respi::init, line 112, and main, lines 424-425: Ok(Respi { graph }) is
\* returned and main calls run
InitReturn ==
    /\ pc = "build"
    /\ k = NumItems + NumSyntheses + NumMorphs
    /\ pc' = "start"
    /\ UNCHANGED <<argv, csv, help_printed, item_csv_path, new_items,
                   new_syntheses, new_morphs, graph, item_indices, k,
                   start_index, goal_index, line, result, out>>

\* Respi::run, lines 254-260: one turn of the start loop
ReadStart ==
    /\ pc = "start"
    /\ \E typed \in StdinLines :
         LET start_name == get_input(typed)
             node_index == find_item(graph, start_name)
         IN /\ line' = start_name
            /\ IF node_index # NoIndex
               THEN start_index' = node_index /\ pc' = "goal"
               ELSE UNCHANGED <<start_index, pc>>
    /\ out' = <<"start: ">>
    /\ result' = <<>>
    /\ UNCHANGED <<argv, csv, help_printed, item_csv_path, new_items,
                   new_syntheses, new_morphs, graph, item_indices, k, goal_index>>

\* ReadGoal leaving its loop with the default node index on an unknown name
ReadGoalAcceptsUnknown ==
    /\ pc = "goal"
    /\ \E typed \in StdinLines :
         LET goal_name == get_input(typed)
             node_index == find_item(graph, goal_name)
         IN /\ line' = goal_name
            /\ goal_index' = IF node_index # NoIndex THEN node_index ELSE 1
    /\ pc' = "query"
    /\ out' = <<"goal: ">>
    /\ UNCHANGED <<argv, csv, help_printed, item_csv_path, new_items,
                   new_syntheses, new_morphs, graph, item_indices, k,
                   start_index, result>>

\* Respi::run, lines 262-268: one turn of the goal loop
ReadGoal ==
    /\ pc = "goal"
    /\ \E typed \in StdinLines :
         LET goal_name == get_input(typed)
             node_index == find_item(graph, goal_name)
         IN /\ line' = goal_name
            /\ IF node_index # NoIndex
               THEN goal_index' = node_index /\ pc' = "query"
               ELSE UNCHANGED <<goal_index, pc>>
    /\ out' = <<"goal: ">>
    /\ UNCHANGED <<argv, csv, help_printed, item_csv_path, new_items,
                   new_syntheses, new_morphs, graph, item_indices, k,
                   start_index, result>>

\* Respi::run, lines 270-294: search, print, and back to the start prompt
Query ==
    /\ pc = "query"
    /\ \E tie \in {"oldest", "newest"} :
         LET res == astar(graph, start_index, goal_index, tie) IN
           /\ result' = res
           /\ out' = out \o print_result(graph, res, goal_index)
    /\ pc' = "start"
    /\ UNCHANGED <<argv, csv, help_printed, item_csv_path, new_items,
                   new_syntheses, new_morphs, graph, item_indices, k,
                   start_index, goal_index, line>>

Next ==
    \/ MainArgs
    \/ InitParse
    \/ InitItem
    \/ InitSynthesis
    \/ InitMorph
    \/ InitReturn
    \/ ReadStart
    \/ ReadGoal
    \/ Query

Spec == Init /\ [][Next]_vars

\* The same program started with any short command line, over a few files
CliDatasets ==
    {d \in Datasets :
        \/ d = <<>>
        \/ /\ Len(d) = 3
           /\ d[1] = Row("a", <<"t", "", "", "">>, "1", "", NoCats, NoCats, 25)
           /\ d[2] = Row("b", NoCats, "", "1", <<"a", "", "", "">>, NoCats, 25)
           /\ d[3].name = "c"}

InitCli ==
    /\ argv \in {<<"respi">> \o a : a \in ArgLists}
    /\ csv \in CliDatasets
    /\ pc = "main"
    /\ help_printed = 0
    /\ item_csv_path = ""
    /\ new_items = <<>>
    /\ new_syntheses = <<>>
    /\ new_morphs = <<>>
    /\ graph = EmptyGraph
    /\ item_indices = EmptyMap
    /\ k = 0
    /\ start_index = NoIndex
    /\ goal_index = NoIndex
    /\ line = ""
    /\ result = <<>>
    /\ out = <<>>

SpecCli == InitCli /\ [][Next]_vars

-----------------------------------------------------------------------------
(* Notions the properties are stated in *)

Nodes(g) == 1..Len(g.nodes)

ItemNodes(g) == {i \in Nodes(g) : g.nodes[i].kind = "Item"}

MorphNodes(g) == {i \in Nodes(g) : g.nodes[i].kind = "Morph"}

EdgesFrom(g, i) == {j \in 1..Len(g.edges) : g.edges[j].source = i}

EdgesInto(g, i) == {j \in 1..Len(g.edges) : g.edges[j].target = i}

EdgesBetween(g, a, b) == EdgesFrom(g, a) \cap EdgesInto(g, b)

HasEdge(g, a, b) == EdgesBetween(g, a, b) # {}

\* init has returned Ok and run is serving queries
Built == pc \in {"start", "goal", "query"}

\* The record a Synthesis or Morph node was made from
SynthesisRecord(s) == new_syntheses[s - NumItems]

MorphRecord(m) == new_morphs[m - NumItems - NumSyntheses]

RECURSIVE Distance(_, _, _, _, _)
\* Breadth-first distance along edge direction from the frontier at depth d
\* to goal; -1 when goal is out of reach
Distance(g, frontier, seen, goal, d) ==
    IF goal \in frontier THEN d
    ELSE LET next == {e.target : e \in {x \in Range(g.edges) : x.source \in frontier}}
                     \ seen
         IN IF next = {} THEN -1
            ELSE Distance(g, next, seen \cup next, goal, d + 1)

ShortestLength(g, start, goal) == Distance(g, {start}, {start}, goal, 0)

Label(n) == IF n.kind = "Item" THEN n.name ELSE n.kind

RECURSIVE Joined(_, _)
Joined(labels, sep) ==
    IF Len(labels) <= 1 THEN labels
    ELSE <<labels[1], sep>> \o Joined(Tail(labels), sep)

PathLabels(g, path) == [i \in 1..Len(path) |-> Label(g.nodes[path[i]])]

Answered == result # <<>>

-----------------------------------------------------------------------------
(* C1 *)

\* C1 as stated: once init has returned, every Synthesis node has out-degree
\* exactly 1, its one edge going to the Item its record names, also when the
\* synthesis is the base recipe of morphs.
C1_OutDegreeOne ==
    Built =>
      \A s \in SynthesisNodes(graph) :
        /\ Cardinality(EdgesFrom(graph, s)) = 1
        /\ \A j \in EdgesFrom(graph, s) :
             graph.edges[j].target \in ItemsNamed(graph, SynthesisRecord(s).name)

\* C1 amended: once init has returned, every Synthesis node has exactly one
\* edge to an Item node, the target being an Item of the name its record
\* carries; all its other outgoing edges go to Morph nodes, one to each morph
\* it is the base recipe of, so its out-degree is 1 plus the number of those
\* morphs.
C1_OneProducedItem ==
    Built =>
      \A s \in SynthesisNodes(graph) :
        LET toItems == {j \in EdgesFrom(graph, s) :
                          graph.edges[j].target \in ItemNodes(graph)}
            based == {m \in MorphNodes(graph) : HasEdge(graph, s, m)}
        IN /\ Cardinality(toItems) = 1
           /\ \A j \in toItems :
                graph.nodes[graph.edges[j].target].name = SynthesisRecord(s).name
           /\ \A j \in EdgesFrom(graph, s) \ toItems :
                graph.edges[j].target \in MorphNodes(graph)
           /\ \A m \in based : Cardinality(EdgesBetween(graph, s, m)) = 1
           /\ Cardinality(EdgesFrom(graph, s)) = 1 + Cardinality(based)

\* A synthesis that is the base recipe of two morphs, and one of none
C1_Witness ==
    /\ Built
    /\ \E s \in SynthesisNodes(graph) : Cardinality(EdgesFrom(graph, s)) = 3
    /\ \E s \in SynthesisNodes(graph) : Cardinality(EdgesFrom(graph, s)) = 1

-----------------------------------------------------------------------------
(* C2 *)

MorphWired(g, m) ==
    LET r == MorphRecord(m)
        into == EdgesInto(g, m)
        from == EdgesFrom(g, m)
    IN /\ Cardinality(into) = 2
       /\ Cardinality(from) = 1
       /\ \E j \in into :
            /\ g.edges[j].source \in SynthesisNodes(g)
            /\ \E i \in ItemsNamed(g, r.from_recipe) : HasEdge(g, g.edges[j].source, i)
       /\ \E j \in into : g.edges[j].source \in ItemsNamed(g, r.from_requiring)
       /\ \A j \in from : g.edges[j].target \in ItemsNamed(g, r.name)

IncidentEdges(g, m) == {<<j, g.edges[j]>> : j \in EdgesInto(g, m) \cup EdgesFrom(g, m)}

\* C2: every Morph node has in-degree 2 and out-degree 1: in from a Synthesis
\* that is a direct predecessor of the Item named from_recipe, in from the
\* Item named from_requiring, out to the Item the morph record names; and no
\* step adds or removes an edge at a Morph node that is already in the graph.
C2_MorphEdges ==
    /\ [](\A m \in MorphNodes(graph) : MorphWired(graph, m))
    /\ [][\A m \in MorphNodes(graph) :
            /\ m \in MorphNodes(graph')
            /\ IncidentEdges(graph', m) = IncidentEdges(graph, m)]_vars

\* A served graph with two Morph nodes
C2_Witness == Built /\ Cardinality(MorphNodes(graph)) >= 2

-----------------------------------------------------------------------------
(* C3 *)

Specifiers(r) == <<r.ingredient1, r.ingredient2, r.ingredient3, r.ingredient4>>

Fields(n) == {Some(n.name), n.category1, n.category2, n.category3, n.category4}

\* The ingredient slots of record r whose specifier item node n carries
MatchingSlots(r, n) ==
    {q \in 1..4 : Specifiers(r)[q] # None /\ Specifiers(r)[q] \in Fields(n)}

\* C3: a Synthesis node has, from every Item node, one edge for each of its
\* present specifiers that is the item's name or one of its categories (one,
\* however many of the five fields hold it), none from an Item that matches
\* in no field, none from a Synthesis or Morph node; a specifier matching
\* nothing adds nothing and construction does not fail in a synthesis.
C3_IngredientEdges ==
    /\ \A s \in SynthesisNodes(graph) :
         \A i \in Nodes(graph) :
           Cardinality(EdgesBetween(graph, i, s)) =
             IF i \in ItemNodes(graph)
             THEN Cardinality(MatchingSlots(SynthesisRecord(s), graph.nodes[i]))
             ELSE 0
    /\ pc = "panic" => k >= NumItems + NumSyntheses

\* A served graph with a synthesis one of whose specifiers matches nothing,
\* one an item by name and one the same item by a category it holds in two
\* slots, the fourth among them
C3_Witness ==
    /\ Built
    /\ \E s \in SynthesisNodes(graph) :
         /\ \E q \in 1..4 :
              /\ Specifiers(SynthesisRecord(s))[q] # None
              /\ \A i \in ItemNodes(graph) :
                   Specifiers(SynthesisRecord(s))[q] \notin Fields(graph.nodes[i])
         /\ \E i \in ItemNodes(graph) :
              /\ Cardinality(EdgesBetween(graph, i, s)) = 2
              /\ graph.nodes[i].category2 = graph.nodes[i].category4
              /\ graph.nodes[i].category4 \in Range(Specifiers(SynthesisRecord(s)))

-----------------------------------------------------------------------------
(* C4 *)

\* C4: a query finds a path exactly when the goal can be reached from the
\* start along edge direction; the path starts at start, ends at goal, each
\* step is an edge, and it has the least number of edges; from a node to
\* itself it is that node alone.
C4_ShortestPath ==
    Answered =>
      LET shortest == ShortestLength(graph, start_index, goal_index) IN
        /\ result.found <=> shortest >= 0
        /\ result.found =>
             /\ result.path[1] = start_index
             /\ result.path[Len(result.path)] = goal_index
             /\ \A i \in 1..Len(result.path) - 1 :
                  HasEdge(graph, result.path[i], result.path[i + 1])
             /\ Len(result.path) - 1 = shortest
             /\ result.cost = shortest
             /\ start_index = goal_index => result.path = <<start_index>>

\* The path Wood, Synthesis, Plank, Synthesis, Table, in a graph where the
\* way back does not exist
C4_Witness ==
    /\ Answered
    /\ result.found
    /\ PathLabels(graph, result.path) = <<"a", "Synthesis", "b", "Synthesis", "c">>
    /\ ShortestLength(graph, goal_index, start_index) = -1

-----------------------------------------------------------------------------
(* C5 *)

Prompt == IF pc = "start" THEN "start: " ELSE "goal: "

\* C5: a name typed at a prompt that is no Item's name neither ends the
\* session nor starts a search nor prints a result: the same prompt comes
\* again, a start already found is kept, and a search runs only with both
\* found.  Finding no path is another outcome: both were found, an empty
\* result is printed and the session is back at the start prompt.
C5_UnknownNameReprompts ==
    /\ [](pc = "query" =>
            /\ start_index \in ItemNodes(graph)
            /\ goal_index \in ItemNodes(graph)
            /\ ~Answered)
    /\ [](Answered =>
            /\ start_index \in ItemNodes(graph)
            /\ goal_index \in ItemNodes(graph)
            /\ graph.nodes[goal_index].name = line)
    /\ []((Answered /\ ~result.found) =>
            /\ out = <<"goal: ", "shortest path: ", "\n\n">>
            /\ pc = "start")
    /\ [][(pc \in {"start", "goal"} /\ ItemsNamed(graph, line') = {}) =>
            /\ pc' = pc
            /\ start_index' = start_index
            /\ goal_index' = goal_index
            /\ ~Answered'
            /\ out' = <<Prompt>>]_vars
    /\ [][Built => Built']_vars

\* An unknown goal was typed after a start that was found
C5_Witness ==
    /\ pc = "goal"
    /\ ItemsNamed(graph, line) = {}
    /\ start_index \in ItemNodes(graph)
    /\ out = <<"goal: ">>
    /\ ~Answered

-----------------------------------------------------------------------------
(* C6 *)

HasSynthesisPredecessor(g, i) == \E s \in SynthesisNodes(g) : HasEdge(g, s, i)

MorphRecordResolves(g, r) ==
    /\ ItemsNamed(g, r.name) # {}
    /\ ItemsNamed(g, r.from_requiring) # {}
    /\ ItemsNamed(g, r.from_recipe) # {}
    /\ \A i \in ItemsNamed(g, r.from_recipe) : HasSynthesisPredecessor(g, i)

\* C6: a graph is returned and queries are served only if every morph
\* record's result and required names are Item names and its from_recipe
\* names an Item, none of that name without a Synthesis among its direct
\* predecessors; and then no morph was passed over: there is a Morph node for
\* every morph record.
C6_UnresolvedMorphAborts ==
    Built =>
      /\ \A j \in 1..Len(new_morphs) : MorphRecordResolves(graph, new_morphs[j])
      /\ Cardinality(MorphNodes(graph)) = Len(new_morphs)

\* init panicked at a morph whose from_recipe names an item that no synthesis
\* produces, after it had inserted an earlier morph
C6_Witness ==
    /\ pc = "panic"
    /\ MorphNodes(graph) # {}
    /\ LET r == new_morphs[k - NumItems - NumSyntheses + 1] IN
         /\ ItemsNamed(graph, r.from_recipe) # {}
         /\ ItemsNamed(graph, r.from_requiring) # {}
         /\ \A i \in ItemsNamed(graph, r.from_recipe) :
              ~HasSynthesisPredecessor(graph, i)

-----------------------------------------------------------------------------
(* C7 *)

\* Every synthesis record parse_csv returns carries the name of an item
\* record of the same row, so init's lookup at line 52 always finds it.
SynthesisNameResolves ==
    (pc = "build" /\ k >= NumItems) =>
      \A j \in 1..Len(new_syntheses) : new_syntheses[j].name \in DOMAIN item_indices

-----------------------------------------------------------------------------
(* C8 *)

Options == {"-i", "--items"}

RECURSIVE AllRecognized(_)
\* Every argument is the word respi, or an option followed by its value
AllRecognized(args) ==
    IF args = <<>> THEN TRUE
    ELSE IF args[1] = "respi" THEN AllRecognized(Tail(args))
    ELSE IF args[1] \in Options THEN Len(args) >= 2 /\ AllRecognized(Drop(args, 2))
    ELSE FALSE

RECURSIVE SuppliesPath(_)
\* Some option comes with a value
SuppliesPath(args) ==
    IF args = <<>> THEN FALSE
    ELSE IF args[1] \in Options THEN Len(args) >= 2
    ELSE SuppliesPath(Tail(args))

\* C8: with an unrecognized argument, or no dataset path, help is printed
\* and the process stops before Respi::init is called.
C8_HelpAndAbort ==
    (~AllRecognized(Tail(argv)) \/ ~SuppliesPath(Tail(argv))) =>
      /\ pc \in {"main", "init"}
      /\ pc = "init" => help_printed >= 1

-----------------------------------------------------------------------------
(* C9 *)

\* C9: a path that was found is printed as the labels of its nodes in order,
\* " -> " between neighbours and nothing after the last.
C9_Rendering ==
    (Answered /\ result.found) =>
      out = <<"goal: ", "shortest path: ">>
            \o Joined(PathLabels(graph, result.path), " -> ")
            \o <<"\n\n">>

\* A printed path that passes from a Synthesis straight to a Morph
C9_Witness ==
    /\ Answered
    /\ result.found
    /\ \E i \in 1..Len(result.path) - 1 :
         /\ result.path[i] \in SynthesisNodes(graph)
         /\ result.path[i + 1] \in MorphNodes(graph)

-----------------------------------------------------------------------------
(* C10 *)

EdgeKinds ==
    {<<"Item", "Synthesis">>, <<"Synthesis", "Item">>, <<"Synthesis", "Morph">>,
     <<"Item", "Morph">>, <<"Morph", "Item">>}

KindsOf(g) ==
    {<<g.nodes[e.source].kind, g.nodes[e.target].kind>> : e \in Range(g.edges)}

\* C10: at every step of construction and after it each edge is of one of
\* the five kinds, so a path found between two different Items has at least
\* two edges and no two Items next to each other.
C10_EdgeKinds ==
    /\ KindsOf(graph) \subseteq EdgeKinds
    /\ (Answered /\ result.found /\ start_index # goal_index) =>
         /\ Len(result.path) >= 3
         /\ \A i \in 1..Len(result.path) - 1 :
              ~(/\ result.path[i] \in ItemNodes(graph)
                /\ result.path[i + 1] \in ItemNodes(graph))

\* A graph with edges of all five kinds and a path found between two items
C10_Witness ==
    /\ KindsOf(graph) = EdgeKinds
    /\ Answered
    /\ result.found
    /\ start_index # goal_index

====
